---- MODULE Spec2Model ----
(***************************************************************************)
(* Sonicmatch: the recommendation endpoint of backend/app/main.py with the *)
(* LLM refinement of backend/app/services/llm_service.py, and the session  *)
(* engine of app/services/recommendation_engine.py with the retrying LLM   *)
(* client of sonicmatch-backend/app/services/llm_client.py.                *)
(*                                                                         *)
(* The repository holds two applications.  A behaviour of the model is one *)
(* request handled by one of them, or one call of a function of the        *)
(* backend's models and services on its own (the scoring engine, the       *)
(* Spotify feature extractor, the derivation of a headphone's              *)
(* characteristics), or a sequence of calls on one stateful part (the      *)
(* session endpoints with their cache and the background task, the         *)
(* catalog listing with its cache, the caching LLM service); the variable  *)
(* app says which.                                                         *)
(***************************************************************************)
EXTENDS Integers, Sequences, FiniteSets, TLC

VARIABLES
    app,          \* which application handles the request
    request,      \* UserPreferencesRequest / UserPreference of the request
    llmAvailable, \* get_llm_service() returned a service (an API key is set)
    apiPc,        \* position of get_recommendations
    recs,         \* the Recommendation objects, in the order of the list `recommendations`
    det,          \* recs as engine.recommend returned them (before any refinement)
    llmResult,    \* the dict refine_recommendations returned
    jsonParsed,   \* json.loads succeeded in _parse_json_response
    llmAnalysis,  \* what _parse_json_response returned
    svcOutcome,   \* what the external service did on the call of refine_recommendations
    apiCalls,     \* external calls made by refine_recommendations
    httpStatus,   \* status of the response, 0 while there is none
    respRecs,     \* `recommendations` of the RecommendationResponse
    respInsights, \* `llm_insights` of the RecommendationResponse
    enginePc,     \* position of RecommendationEngine.generate_recommendations
    sessionStatus,\* status of the RecommendationSession record
    candidates,   \* headphones that passed _fetch_candidate_headphones
    clientPc,     \* state of LLMClient._call_llm_with_retry
    attempt,      \* loop variable of _call_llm_with_retry
    clientCalls,  \* external calls made by _call_llm_with_retry
    inFlight,     \* external calls of the client that have not finished
    waits,        \* the wait_time of every asyncio.sleep of the run
    lastFailure,  \* how the last failed step of the run failed
    raised,       \* the exception generate_recommendations ended with
    matches,      \* headphone ids of the HeadphoneMatch rows saved
    llmEntries,   \* headphone ids of "recommendations" in the answer the client parsed
    result,       \* what a function or handler called on its own returned (app says which)
    dbSessions,   \* the committed rows of RecommendationSession, by session id
    sessionCache, \* the entries `session:<id>` of the Redis cache
    headphoneCache,   \* the entries `headphones:filter:<hash>` of the Redis cache
    explanationCache, \* CachedLLMService.explanation_cache
    externalCalls,    \* calls of client.messages.create made for CachedLLMService
    task              \* the run of process_recommendation_task

vars == <<app, request, llmAvailable, apiPc, recs, det, llmResult, jsonParsed,
          llmAnalysis, svcOutcome,
          apiCalls, httpStatus, respRecs, respInsights, enginePc, sessionStatus,
          candidates, clientPc, attempt, clientCalls, inFlight, waits,
          lastFailure, raised, matches, llmEntries, result, dbSessions,
          sessionCache, headphoneCache, explanationCache, externalCalls, task>>

apiVars == <<apiPc, recs, det, llmResult, jsonParsed, llmAnalysis, svcOutcome,
             apiCalls, httpStatus,
             respRecs, respInsights>>

engineVars == <<enginePc, sessionStatus, candidates, clientPc, attempt,
                clientCalls, inFlight, waits, lastFailure, raised, matches,
                llmEntries>>

storeVars == <<dbSessions, sessionCache, headphoneCache, explanationCache,
               externalCalls, task>>

----------------------------------------------------------------------------
(* Bounds of the model *)

\* largest cache_size a CachedLLMService is built with
MaxCacheSize == 2

\* number of rows of recommendation_sessions
MaxSessions == 3

\* number of headphones in the catalog
MaxCatalog == 6
\* number of tokens in the text the external service answers with
MaxTextLen == 3
\* external calls after which the client model stops counting
CallCap == 5
\* number of entries in the recommendations the external service returns
MaxEntries == 2
\* largest top_k the scoring engine is called with on its own
MaxTopK == 3
\* largest number of tracks a profile is extracted from
MaxTracks == 21

(* Constants of the program *)

TopK == 10
RefineTop == 5
DefaultRankingLen == 5
MaxRetries == 3
BackoffBase == 2

Null == "None"
\* stands for an entry of the ranking that is not a number (a string, null, a list)
NonInt == -1

Min(a, b) == IF a < b THEN a ELSE b
Abs(a) == IF a < 0 THEN 0 - a ELSE a
Range(s) == {s[i] : i \in 1..Len(s)}
SeqsUpTo(S, n) == UNION {[1..m -> S] : m \in 0..n}

----------------------------------------------------------------------------
(* The catalog (headphones_db) and the request *)

UseCases == {"casual", "studio"}

\* headphones_db: the catalog loaded at startup, in catalog order
Catalog ==
    [i \in 1..MaxCatalog |->
        [id |-> i,
         price |-> 100 * i,
         anc |-> (i % 2 = 1),
         wireless |-> (i % 3 # 0),
         over_ear |-> (i % 2 = 0),
         headphone_type |-> IF i % 2 = 0 THEN "over_ear" ELSE "in_ear",
         back_type |-> IF i % 3 = 2 THEN "open" ELSE "closed",
         use_case |-> IF i % 2 = 0 THEN "studio" ELSE "casual",
         rating |-> 40 + (2 * (i % 3)),
         sound |-> [bass |-> IF i % 2 = 1 THEN 80 ELSE 40, mids |-> 50,
                    treble |-> 50, soundstage |-> 20 * (1 + (i % 4)),
                    warmth |-> 50]]]

\* the audio profile of the request, in percent
Profiles ==
    [bass_head |-> [bass |-> 80, mids |-> 50, treble |-> 60, soundstage |-> 40,
                    warmth |-> 50],
     audiophile |-> [bass |-> 40, mids |-> 60, treble |-> 50, soundstage |-> 80,
                     warmth |-> 60]]

Budgets == {<<0, 50>>, <<100, 1000>>, <<400, 550>>}

\* UserPreferencesRequest of POST /api/recommendations
Requests ==
    {r \in [budget : Budgets, anc_required : BOOLEAN, wireless_required : BOOLEAN,
            primary_use_case : UseCases, profile : DOMAIN Profiles,
            use_llm_refinement : BOOLEAN] :
         (r.primary_use_case = "studio") = (r.profile = "audiophile")}

\* UserPreference handed to RecommendationEngine.generate_recommendations
Preferences ==
    [budget : Budgets, anc_required : BOOLEAN, wireless_required : BOOLEAN,
     preferred_type : {Null, "over_ear"}, open_back_acceptable : BOOLEAN]

----------------------------------------------------------------------------
(* RecommendationEngine.recommend: hard filter, scores, ranking *)

BudgetTolerancePct == 110

\* HardFilter: price within [min, max * 1.10] and every required capability
PassesHardFilter(h, req) ==
    /\ h.price >= req.budget[1]
    /\ h.price * 100 <= req.budget[2] * BudgetTolerancePct
    /\ req.anc_required => h.anc
    /\ req.wireless_required => h.wireless

ISqrt(n) == CHOOSE r \in 0..100 : r * r <= n /\ (n < (r + 1) * (r + 1) \/ r = 100)

SoundDims == {"bass", "mids", "treble", "soundstage", "warmth"}
SoundWeight == [bass |-> 15, mids |-> 12, treble |-> 12, soundstage |-> 10, warmth |-> 8]

RECURSIVE SumOver(_, _)
SumOver(S, f) ==
    IF S = {} THEN 0
    ELSE LET d == CHOOSE x \in S : TRUE IN f[d] + SumOver(S \ {d}, f)

SoundMatch(h, req) ==
    LET p == Profiles[req.profile]
        dist == SumOver(SoundDims,
                    [d \in SoundDims |-> SoundWeight[d] * (p[d] - h.sound[d]) * (p[d] - h.sound[d])])
        maxDist == SumOver(SoundDims, [d \in SoundDims |-> SoundWeight[d] * 10000])
    IN 100 - ISqrt((dist * 10000) \div maxDist)

UseCaseMatch(h, req) ==
    IF req.primary_use_case = h.use_case THEN 100
    ELSE IF req.primary_use_case = "casual" /\ h.use_case = "studio" THEN 60
    ELSE IF req.primary_use_case = "studio" /\ h.use_case = "casual" THEN 70
    ELSE 30

BudgetFit(h, req) ==
    LET lo == req.budget[1]
        hi == req.budget[2]
    IN IF h.price < lo THEN 60
       ELSE IF h.price <= hi
            THEN 100 - (20 * Abs(2 * h.price - (lo + hi))) \div (hi - lo)
            ELSE 50 - (500 * (h.price - hi)) \div hi

FeatureMatch(h) ==
    Min(100, 100 + (IF h.anc THEN 10 ELSE 0) + (IF h.over_ear THEN 5 ELSE 0))

CommunityRating(h) == h.rating * 2

\* ScoringWeights, in thousandths: the defaults
DefaultWeights ==
    [sound_match |-> 400, use_case_match |-> 200, budget_fit |-> 150,
     feature_match |-> 150, user_rating |-> 100]

WeightSum(w) ==
    w.sound_match + w.use_case_match + w.budget_fit + w.feature_match + w.user_rating

\* ScoringWeights is validated at construction: five non-negative values
\* that sum to 1.0 within 0.01
ValidWeights(w) ==
    /\ \A k \in DOMAIN w : w[k] >= 0
    /\ Abs(WeightSum(w) - 1000) <= 10

\* the weights of the engine that serves req: RecommendationEngine() has the
\* defaults, RecommendationEngine(weights=...) the weights it was built with
WeightsOf(req) == IF "weights" \in DOMAIN req THEN req.weights ELSE DefaultWeights

\* overall in thousandths of a point: the weighted sum of the components
Scores(h, req) ==
    LET s == SoundMatch(h, req)
        u == UseCaseMatch(h, req)
        b == BudgetFit(h, req)
        f == FeatureMatch(h)
        c == CommunityRating(h)
        w == WeightsOf(req)
    IN [sound_profile |-> s, use_case |-> u, budget |-> b, feature |-> f,
        rating |-> c,
        overall |-> w.sound_match * s + w.use_case_match * u + w.budget_fit * b
                    + w.feature_match * f + w.user_rating * c]

Highlights(h, req, sc) ==
    LET all == (IF sc.sound_profile > 85 THEN <<"signature">> ELSE <<>>)
               \o (IF Profiles[req.profile].bass > 70 /\ h.sound.bass > 70
                   THEN <<"bass">> ELSE <<>>)
               \o (IF sc.use_case > 90 THEN <<"use_case">> ELSE <<>>)
               \o (IF h.rating >= 45 THEN <<"rating">> ELSE <<>>)
               \o (IF h.anc THEN <<"anc">> ELSE <<>>)
    IN IF all = <<>> THEN <<"solid">> ELSE SubSeq(all, 1, Min(4, Len(all)))

TradeOffs(h, req, sc) ==
    LET all == (IF Profiles[req.profile].bass > 70 /\ h.sound.bass < 50
                THEN <<"bass">> ELSE <<>>)
               \o (IF Profiles[req.profile].soundstage > 70 /\ h.sound.soundstage < 50
                   THEN <<"intimate">> ELSE <<>>)
               \o (IF sc.use_case < 60 THEN <<"use_case">> ELSE <<>>)
               \o (IF sc.budget < 70 THEN <<"budget">> ELSE <<>>)
    IN SubSeq(all, 1, Min(3, Len(all)))

\* the catalog positions that pass the hard filter, in catalog order
RECURSIVE Surviving(_, _)
Surviving(i, req) ==
    IF i > MaxCatalog THEN <<>>
    ELSE (IF PassesHardFilter(Catalog[i], req) THEN <<i>> ELSE <<>>)
         \o Surviving(i + 1, req)

\* an insertion that puts the later of two equal candidates first
InsertBeforeEqual(sorted, i, req) ==
    LET above == {k \in 1..Len(sorted) :
                     Scores(Catalog[sorted[k]], req).overall > Scores(Catalog[i], req).overall}
        n == Cardinality(above)
    IN SubSeq(sorted, 1, n) \o <<i>> \o SubSeq(sorted, n + 1, Len(sorted))

\* stable insertion of catalog position i into a list sorted by overall, descending
RECURSIVE InsertByScore(_, _, _)
InsertByScore(sorted, i, req) ==
    IF sorted = <<>> THEN <<i>>
    ELSE IF Scores(Catalog[Head(sorted)], req).overall >= Scores(Catalog[i], req).overall
         THEN <<Head(sorted)>> \o InsertByScore(Tail(sorted), i, req)
         ELSE <<i>> \o sorted

RECURSIVE SortByScore(_, _)
SortByScore(s, req) ==
    IF s = <<>> THEN <<>>
    ELSE InsertByScore(SortByScore(SubSeq(s, 1, Len(s) - 1), req), s[Len(s)], req)

\* an engine that numbers the candidates before it sorts them
RecommendRankedBeforeSort(req, top_k) ==
    LET surviving == Surviving(1, req)
        sorted == SortByScore(surviving, req)
        n == Min(top_k, Len(sorted))
    IN [k \in 1..n |->
           LET h == Catalog[sorted[k]]
               sc == Scores(h, req)
           IN [headphone |-> h.id,
               rank |-> CHOOSE r \in 1..Len(surviving) : surviving[r] = sorted[k],
               scores |-> sc,
               match_highlights |-> Highlights(h, req, sc),
               trade_offs |-> TradeOffs(h, req, sc),
               explanation |-> Null]]

\* engine.recommend(...): the ranked Recommendation objects, at most top_k
Recommend(req, top_k) ==
    LET sorted == SortByScore(Surviving(1, req), req)
        n == Min(top_k, Len(sorted))
    IN [k \in 1..n |->
           LET h == Catalog[sorted[k]]
               sc == Scores(h, req)
           IN [headphone |-> h.id, rank |-> k, scores |-> sc,
               match_highlights |-> Highlights(h, req, sc),
               trade_offs |-> TradeOffs(h, req, sc),
               explanation |-> Null]]


----------------------------------------------------------------------------
(* The answer of the external service to LLMService.refine_recommendations *)

\* the text of the answer, as tokens: prose that is not JSON, a ``` fence,
\* a ```json fence, the JSON document of the answer, white space
Tokens == {"prose", "fence", "fencejson", "json", "ws"}
Texts == SeqsUpTo(Tokens, MaxTextLen)
Fences == {"fence", "fencejson"}

\* the entries a ranking of n candidates is drawn from: the indices 1..n,
\* the out-of-range 0 and n + 1, and an entry that is not a number
RankVals(n) == (0..(n + 1)) \cup {NonInt}

Rankings(n) ==
    [1..n -> RankVals(n)]
    \cup {[i \in 1..m |-> i] : m \in {0, n - 1, n + 1} \cap Nat}

\* the JSON document of the answer: an object with the key
\* recommended_ranking and the text fields
RankingBody(r) ==
    [kind |-> "dict", has_ranking |-> TRUE, ranking |-> r, explained |-> TRUE]

EmptyDict == [kind |-> "dict", has_ranking |-> FALSE, ranking |-> <<>>, explained |-> FALSE]

Identity(n) == [i \in 1..n |-> i]
Reversed(n) == [i \in 1..n |-> n + 1 - i]

\* the documents every text of Texts is tried with: two rankings, an object
\* without the key recommended_ranking (with and without the text fields),
\* and a JSON list
SampleBodies(n) ==
    {RankingBody(Identity(n)), RankingBody(Reversed(n)), EmptyDict,
     [EmptyDict EXCEPT !.explained = TRUE], [EmptyDict EXCEPT !.kind = "list"]}

Answer(text, body) == [kind |-> "content", text |-> text, body |-> body]

NullInsights == [is_null |-> TRUE, top_pick_explanation |-> "", key_insights |-> <<>>]

\* index of the first token of text at or after from that is in S, 0 if none
FindToken(text, S, from) ==
    IF \E i \in from..Len(text) : text[i] \in S
    THEN CHOOSE i \in from..Len(text) :
             text[i] \in S /\ \A j \in from..(i - 1) : text[j] \notin S
    ELSE 0

\* content[start:-1]: the text from token start on, without its last character
ChopLast(text) ==
    IF text = <<>> THEN <<>>
    ELSE LET init == SubSeq(text, 1, Len(text) - 1)
             last == text[Len(text)]
         IN IF last = "ws" THEN init
            ELSE IF last = "json" THEN Append(init, "cut")
            ELSE text

\* str.strip()
RECURSIVE Strip(_)
Strip(text) ==
    IF text = <<>> THEN <<>>
    ELSE IF Head(text) = "ws" THEN Strip(Tail(text))
    ELSE IF text[Len(text)] = "ws" THEN Strip(SubSeq(text, 1, Len(text) - 1))
    ELSE text

\* LLMService._parse_json_response: the text handed to json.loads
JsonStr(text) ==
    LET opener == IF \E i \in 1..Len(text) : text[i] = "fencejson"
                  THEN FindToken(text, {"fencejson"}, 1)
                  ELSE FindToken(text, {"fence"}, 1)
        start == opener + 1
        end == FindToken(text, Fences, start)
        json_str == IF opener = 0 THEN Strip(text)
                    ELSE IF end # 0 THEN Strip(SubSeq(text, start, end - 1))
                    ELSE Strip(ChopLast(SubSeq(text, start, Len(text))))
    IN json_str

\* json.loads(json_str) succeeds: the text is the JSON document and nothing else
JsonLoads(json_str) == json_str = <<"json">>

\* LLMService._parse_json_response: the parsed document, {} when json.loads fails
ParseJsonResponse(text, body) ==
    IF JsonLoads(JsonStr(text)) THEN body ELSE EmptyDict


----------------------------------------------------------------------------
(* LLMService.refine_recommendations and the rest of get_recommendations *)

\* the loop of _apply_llm_ranking from entry new_rank on; objs are the
\* Recommendation objects (shared with the caller), ranked holds positions in objs
RECURSIVE ApplyFrom(_, _, _, _)
ApplyFrom(objs, ranked, llm_ranking, new_rank) ==
    IF new_rank > Len(llm_ranking)
    THEN [objs |-> objs, ranked |-> ranked, raised |-> FALSE]
    ELSE LET old_idx == llm_ranking[new_rank]
         IN IF old_idx = NonInt
            THEN [objs |-> objs, ranked |-> ranked, raised |-> TRUE]
            ELSE IF 1 <= old_idx /\ old_idx <= Len(objs)
                 THEN ApplyFrom([objs EXCEPT ![old_idx].rank = new_rank],
                                Append(ranked, old_idx), llm_ranking, new_rank + 1)
                 ELSE ApplyFrom(objs, ranked, llm_ranking, new_rank + 1)

\* LLMService._apply_llm_ranking
ApplyLlmRanking(recommendations, llm_ranking) ==
    IF llm_ranking = <<>> \/ Len(llm_ranking) # Len(recommendations)
    THEN [objs |-> recommendations, ranked |-> Identity(Len(recommendations)),
          raised |-> FALSE]
    ELSE LET r == ApplyFrom(recommendations, <<>>, llm_ranking, 1)
         IN IF ~r.raised /\ r.ranked = <<>>
            THEN [r EXCEPT !.ranked = Identity(Len(recommendations))]
            ELSE r

\* llm_analysis.get('recommended_ranking', list(range(1, 6)))
RecommendedRanking(llm_analysis) ==
    IF llm_analysis.has_ranking THEN llm_analysis.ranking
    ELSE Identity(DefaultRankingLen)

\* the llm_insights of a run that succeeded
InsightsOf(llm_analysis) ==
    [is_null |-> FALSE,
     top_pick_explanation |-> IF llm_analysis.explained THEN "top pick" ELSE "",
     key_insights |-> IF llm_analysis.explained THEN <<"insight">> ELSE <<>>]

\* a fallback that kept insights
FallbackResultWithInsights(objs) ==
    [returned |-> TRUE, recommendations |-> objs,
     llm_insights |-> [NullInsights EXCEPT !.is_null = FALSE], has_error |-> TRUE]

\* the except branch of refine_recommendations
FallbackResult(objs) ==
    [returned |-> TRUE, recommendations |-> objs, llm_insights |-> NullInsights,
     has_error |-> TRUE]

\* LLMService.refine_recommendations once the external call has ended with
\* outcome: the objects as it leaves them and the dict it returns
RefineRecommendations(recommendations, outcome) ==
    IF outcome.kind = "raise"
    THEN [objs |-> recommendations, result |-> FallbackResult(recommendations)]
    ELSE LET llm_analysis == ParseJsonResponse(outcome.text, outcome.body)
         IN IF llm_analysis.kind # "dict"
            THEN [objs |-> recommendations, result |-> FallbackResult(recommendations)]
            ELSE LET a == ApplyLlmRanking(recommendations,
                                          RecommendedRanking(llm_analysis))
                 IN IF a.raised
                    THEN [objs |-> a.objs, result |-> FallbackResult(a.objs)]
                    ELSE [objs |-> a.objs,
                          result |->
                              [returned |-> TRUE,
                               recommendations |->
                                   [k \in 1..Len(a.ranked) |-> a.objs[a.ranked[k]]],
                               llm_insights |-> InsightsOf(llm_analysis),
                               has_error |-> FALSE]]

\* a loop that touches every recommendation
AnyRank(rec) == TRUE

\* get_recommendations: `if rec.rank <= 5`
InRefinedTop(rec) == rec.rank <= RefineTop

\* get_recommendations, the loop that merges the insights into the objects;
\* llm_insights.get raises when llm_insights is None
RECURSIVE MergeExplanations(_, _, _)
MergeExplanations(objs, llm_insights, i) ==
    IF i > Len(objs) THEN [objs |-> objs, raised |-> FALSE]
    ELSE IF InRefinedTop(objs[i])
         THEN IF objs[i].rank = 1
              THEN IF llm_insights.is_null THEN [objs |-> objs, raised |-> TRUE]
                   ELSE MergeExplanations(
                            [objs EXCEPT ![i].explanation = llm_insights.top_pick_explanation],
                            llm_insights, i + 1)
              ELSE MergeExplanations([objs EXCEPT ![i].explanation = ""],
                                     llm_insights, i + 1)
         ELSE MergeExplanations(objs, llm_insights, i + 1)

\* a handler that lets the exception of the refinement step through
ResponseStatusStrict(refinement_raised) == IF refinement_raised THEN 500 ELSE 200

\* get_recommendations: the status of the response after the refinement
\* step; an exception of the step is caught and the request goes on
ResponseStatus(refinement_raised) == 200

\* a handler that does not stop at an empty list
RefinementRequested(req, ranked, available) ==
    /\ req.use_llm_refinement
    /\ available

\* get_recommendations: the condition under which the refinement is called
\* (an empty list has raised 404 before)
RefinementAttempted(req, ranked, available) ==
    /\ ranked # <<>>
    /\ req.use_llm_refinement
    /\ available

\* a handler that answers an empty list with 200
StatusIgnoringEmpty(recommendations) == 200

\* get_recommendations: `if not recommendations: raise HTTPException(404)`
StatusOfRanking(recommendations) == IF recommendations = <<>> THEN 404 ELSE 200

NoLlmResult ==
    [returned |-> FALSE, recommendations |-> <<>>, llm_insights |-> NullInsights,
     has_error |-> FALSE]

\* get_recommendations up to the external call of refine_recommendations
GetRecommendations ==
    /\ app = "backend"
    /\ apiPc = "received"
    /\ LET recommendations == Recommend(request, TopK)
       IN /\ recs' = recommendations
          /\ det' = recommendations
          /\ IF RefinementAttempted(request, recommendations, llmAvailable)
             THEN /\ apiPc' = "refining"
                  /\ apiCalls' = apiCalls + 1
                  /\ UNCHANGED <<httpStatus, respRecs, respInsights>>
             ELSE /\ apiPc' = "responded"
                  /\ httpStatus' = StatusOfRanking(recommendations)
                  /\ respRecs' = recommendations
                  /\ respInsights' = NullInsights
                  /\ UNCHANGED apiCalls
    /\ UNCHANGED storeVars
    /\ UNCHANGED <<app, request, llmAvailable, result, llmResult, jsonParsed, llmAnalysis,
                   svcOutcome>>
    /\ UNCHANGED engineVars

\* refine_recommendations from the end of the external call, then the rest
\* of get_recommendations
FinishRefinement(outcome) ==
    LET passed == SubSeq(recs, 1, Min(RefineTop, Len(recs)))
        refined == RefineRecommendations(passed, outcome)
        objs == [i \in 1..Len(recs) |->
                    IF i <= Len(passed) THEN refined.objs[i] ELSE recs[i]]
        merged == MergeExplanations(objs, refined.result.llm_insights, 1)
    IN /\ recs' = merged.objs
       /\ llmResult' = refined.result
       /\ jsonParsed' = (outcome.kind = "content" /\ JsonLoads(JsonStr(outcome.text)))
       /\ llmAnalysis' = IF outcome.kind = "content"
                         THEN ParseJsonResponse(outcome.text, outcome.body)
                         ELSE EmptyDict
       /\ svcOutcome' = outcome.kind
       /\ respRecs' = merged.objs
       /\ respInsights' = refined.result.llm_insights
       /\ httpStatus' = ResponseStatus(merged.raised)
       /\ apiPc' = "responded"
       /\ UNCHANGED storeVars
       /\ UNCHANGED <<app, request, llmAvailable, result, det, apiCalls>>
       /\ UNCHANGED engineVars

\* client.messages.create raises: a timeout, a transport error, an API error
ServiceRaises ==
    /\ app = "backend"
    /\ apiPc = "refining"
    /\ FinishRefinement([kind |-> "raise", text |-> <<>>, body |-> EmptyDict])

\* client.messages.create returns a message
ServiceAnswers ==
    /\ app = "backend"
    /\ apiPc = "refining"
    /\ LET n == Min(RefineTop, Len(recs))
       IN \/ \E r \in Rankings(n) :
                FinishRefinement(Answer(<<"json">>, RankingBody(r)))
          \/ \E text \in Texts, body \in SampleBodies(n) :
                FinishRefinement(Answer(text, body))


----------------------------------------------------------------------------
(* LLMClient: the retry loop and the parsing of the answer *)

FailureKinds == {"timeout", "transport", "auth"}

\* wait_time = 2 ** attempt
RECURSIVE WaitTime(_)
WaitTime(n) == IF n = 0 THEN 1 ELSE BackoffBase * WaitTime(n - 1)

\* a loop that waits after every failed attempt
RetryAlways(n, max_retries) == TRUE

\* _call_llm_with_retry: `attempt < max_retries - 1`
RetryLeft(n, max_retries) == n < max_retries - 1

\* a loop that never leaves its first attempt
SameAttempt(n) == n

\* _call_llm_with_retry: the next value of the loop variable
NextAttempt(n) == n + 1

\* the entries of "recommendations" in the answer: the id of a candidate,
\* 0 for the id of no candidate, NonInt for a text that is no UUID
EntryIds == (0..MaxCatalog) \cup {NonInt}

\* the JSON document of the answer: an object with the key recommendations
RecommendationsBody(entries) ==
    [kind |-> "dict", has_recommendations |-> TRUE, recommendations |-> entries]

\* the documents every text of Texts is tried with: an object with one
\* entry, an object without the key recommendations, and a JSON list
SampleClientBodies ==
    {RecommendationsBody(<<1>>),
     [kind |-> "dict", has_recommendations |-> FALSE, recommendations |-> <<>>],
     [kind |-> "list", has_recommendations |-> FALSE, recommendations |-> <<>>]}

\* LLMClient._parse_recommendation_response: ok is FALSE when it raises
ParseRecommendationResponse(text, body) ==
    LET r0 == Strip(text)
        r1 == IF r0 # <<>> /\ Head(r0) = "fencejson" THEN Tail(r0) ELSE r0
        r2 == IF r1 # <<>> /\ Head(r1) = "fence" THEN Tail(r1)
              ELSE IF r1 # <<>> /\ Head(r1) = "fencejson" THEN <<"prose">> \o Tail(r1)
              ELSE r1
        r3 == IF r2 # <<>> /\ r2[Len(r2)] = "fence" THEN SubSeq(r2, 1, Len(r2) - 1) ELSE r2
        response == Strip(r3)
    IN [ok |-> response = <<"json">> /\ body.has_recommendations, data |-> body]

\* a query that forgets the ANC requirement
MatchesBudgetAndWireless(h, preference) ==
    /\ h.price >= preference.budget[1]
    /\ h.price <= preference.budget[2]
    /\ preference.wireless_required => h.wireless
    /\ preference.preferred_type # Null
           => h.headphone_type = preference.preferred_type
    /\ ~preference.open_back_acceptable => h.back_type # "open"

\* the where clauses of the query of _fetch_candidate_headphones
MatchesConstraints(h, preference) ==
    /\ h.price >= preference.budget[1]
    /\ h.price <= preference.budget[2]
    /\ preference.wireless_required => h.wireless
    /\ preference.anc_required => h.anc
    /\ preference.preferred_type # Null
           => h.headphone_type = preference.preferred_type
    /\ ~preference.open_back_acceptable => h.back_type # "open"

\* RecommendationEngine._fetch_candidate_headphones, in catalog order
RECURSIVE FetchCandidateHeadphones(_, _)
FetchCandidateHeadphones(i, preference) ==
    IF i > MaxCatalog THEN <<>>
    ELSE (IF MatchesConstraints(Catalog[i], preference) THEN <<Catalog[i].id>> ELSE <<>>)
         \o FetchCandidateHeadphones(i + 1, preference)

\* a test that lets every headphone id through
AnyHeadphone(headphone_id, cands) == TRUE

\* _save_matches: `headphone_id not in candidates` is false
InCandidates(headphone_id, cands) == headphone_id \in Range(cands)

\* RecommendationEngine._save_matches: the matches added to the database
\* session, and whether an entry made it raise
RECURSIVE SaveMatches(_, _, _)
SaveMatches(entries, cands, saved) ==
    IF entries = <<>> THEN [matches |-> saved, raised |-> FALSE]
    ELSE IF Head(entries) = NonInt THEN [matches |-> saved, raised |-> TRUE]
    ELSE IF ~InCandidates(Head(entries), cands) THEN SaveMatches(Tail(entries), cands, saved)
    ELSE SaveMatches(Tail(entries), cands, Append(saved, Head(entries)))

\* generate_recommendations: `if not candidates: raise ValidationException`
HasCandidates(cands) == cands # <<>>

\* generate_recommendations ends by raising exc with the session marked ERROR
EngineFails(exc) ==
    /\ sessionStatus' = "ERROR"
    /\ raised' = exc
    /\ enginePc' = "done"

\* api/v1 generate_recommendations: the status it answers with when
\* RecommendationEngine.generate_recommendations raised exc
ApiStatus(exc) ==
    IF exc = "ValidationException" THEN 422
    ELSE IF exc = "LLMException" THEN 503
    ELSE 500

\* generate_recommendations up to the first external call of the client;
\* the ValidationException of an empty candidate list is raised inside the
\* try and leaves through `except Exception` as a DatabaseException
StartGeneration ==
    /\ app = "sonicmatch"
    /\ enginePc = "idle"
    /\ LET cands == FetchCandidateHeadphones(1, request)
       IN /\ candidates' = cands
          /\ IF HasCandidates(cands)
             THEN /\ sessionStatus' = "PROCESSING"
                  /\ enginePc' = "calling"
                  /\ clientPc' = "Requesting"
                  /\ clientCalls' = clientCalls + 1
                  /\ inFlight' = inFlight + 1
                  /\ UNCHANGED raised
             ELSE /\ EngineFails("DatabaseException")
                  /\ UNCHANGED <<clientPc, clientCalls, inFlight>>
    /\ UNCHANGED <<attempt, waits, lastFailure, matches, llmEntries>>
    /\ UNCHANGED storeVars
    /\ UNCHANGED <<app, request, llmAvailable, result>>
    /\ UNCHANGED apiVars

\* an external call of the client ends with an exception: httpx.TimeoutException
\* or any other exception (both handlers of _call_llm_with_retry)
CallFails(kind) ==
    /\ app = "sonicmatch"
    /\ clientPc = "Requesting"
    /\ inFlight' = inFlight - 1
    /\ lastFailure' = kind
    /\ IF RetryLeft(attempt, MaxRetries)
       THEN /\ waits' = Append(waits, WaitTime(attempt))
            /\ clientPc' = "Retrying"
            /\ UNCHANGED <<enginePc, sessionStatus, raised>>
       ELSE /\ clientPc' = "Failed"
            /\ EngineFails("LLMException")
            /\ UNCHANGED waits
    /\ UNCHANGED <<attempt, clientCalls, candidates, matches, llmEntries>>
    /\ UNCHANGED storeVars
    /\ UNCHANGED <<app, request, llmAvailable, result>>
    /\ UNCHANGED apiVars

\* asyncio.sleep(wait_time) returns and the loop goes on
BackoffElapses ==
    /\ app = "sonicmatch"
    /\ clientPc = "Retrying"
    /\ clientCalls < CallCap
    /\ attempt' = NextAttempt(attempt)
    /\ IF attempt' < MaxRetries
       THEN /\ clientPc' = "Requesting"
            /\ clientCalls' = clientCalls + 1
            /\ inFlight' = inFlight + 1
            /\ UNCHANGED <<enginePc, sessionStatus, raised>>
       ELSE /\ clientPc' = "Failed"
            /\ EngineFails("LLMException")
            /\ UNCHANGED <<clientCalls, inFlight>>
    /\ UNCHANGED <<waits, lastFailure, candidates, matches, llmEntries>>
    /\ UNCHANGED storeVars
    /\ UNCHANGED <<app, request, llmAvailable, result>>
    /\ UNCHANGED apiVars

\* generate_recommendations from the answer of the client's call to its end:
\* the client parses the text, the engine saves the matches
FinishGeneration(text, body) ==
    LET parsed == ParseRecommendationResponse(text, body)
        saved == SaveMatches(parsed.data.recommendations, candidates, <<>>)
    IN IF ~parsed.ok
       THEN /\ EngineFails("LLMException")
            /\ lastFailure' = "malformed"
            /\ UNCHANGED <<matches, llmEntries>>
       ELSE /\ matches' = saved.matches
            /\ llmEntries' = parsed.data.recommendations
            /\ UNCHANGED lastFailure
            /\ IF saved.raised
               THEN EngineFails("DatabaseException")
               ELSE /\ sessionStatus' = "COMPLETE"
                    /\ enginePc' = "refreshing"
                    /\ UNCHANGED raised

\* an external call of the client returns a text
CallReturns ==
    /\ app = "sonicmatch"
    /\ clientPc = "Requesting"
    /\ inFlight' = inFlight - 1
    /\ clientPc' = "Succeeded"
    /\ \/ \E entries \in SeqsUpTo(EntryIds, MaxEntries) :
             FinishGeneration(<<"json">>, RecommendationsBody(entries))
       \/ \E text \in Texts, body \in SampleClientBodies :
             FinishGeneration(text, body)
    /\ UNCHANGED <<attempt, clientCalls, waits, candidates>>
    /\ UNCHANGED storeVars
    /\ UNCHANGED <<app, request, llmAvailable, result>>
    /\ UNCHANGED apiVars

\* generate_recommendations after its commit: db.refresh(session) returns,
\* the analytics event is added and the session is returned
RefreshReturns ==
    /\ app = "sonicmatch"
    /\ enginePc = "refreshing"
    /\ enginePc' = "done"
    /\ UNCHANGED <<sessionStatus, raised, candidates, clientPc, attempt, clientCalls,
                   inFlight, waits, lastFailure, matches, llmEntries>>
    /\ UNCHANGED storeVars
    /\ UNCHANGED <<app, request, llmAvailable, result>>
    /\ UNCHANGED apiVars

\* generate_recommendations after its commit: db.refresh(session) raises (the
\* connection is lost), and `except Exception` marks the session ERROR
RefreshFails ==
    /\ app = "sonicmatch"
    /\ enginePc = "refreshing"
    /\ EngineFails("DatabaseException")
    /\ UNCHANGED <<candidates, clientPc, attempt, clientCalls, inFlight, waits,
                   lastFailure, matches, llmEntries>>
    /\ UNCHANGED storeVars
    /\ UNCHANGED <<app, request, llmAvailable, result>>
    /\ UNCHANGED apiVars

----------------------------------------------------------------------------
(* The specification *)

----------------------------------------------------------------------------
(* RecommendationEngine.recommend called on its own, as the unit tests do *)

NoResult == [done |-> FALSE]

\* the ScoringWeights the engine is built with: the defaults, the weights of
\* test_custom_weights, weights that sum to 0.99 and to 1.005, and weights
\* the validation rejects
WeightChoices ==
    {DefaultWeights,
     [sound_match |-> 600, use_case_match |-> 200, budget_fit |-> 50,
      feature_match |-> 100, user_rating |-> 50],
     [sound_match |-> 390, use_case_match |-> 200, budget_fit |-> 150,
      feature_match |-> 150, user_rating |-> 100],
     [sound_match |-> 0, use_case_match |-> 0, budget_fit |-> 0,
      feature_match |-> 1005, user_rating |-> 0],
     [sound_match |-> 600, use_case_match |-> 200, budget_fit |-> 150,
      feature_match |-> 150, user_rating |-> 100]}

\* the arguments of RecommendationEngine(weights).recommend(...)
EngineCalls ==
    {r \in [budget : Budgets, anc_required : BOOLEAN, wireless_required : BOOLEAN,
            primary_use_case : UseCases, profile : DOMAIN Profiles,
            top_k : 1..MaxTopK, weights : WeightChoices] :
         (r.primary_use_case = "studio") = (r.profile = "audiophile")}

\* RecommendationEngine(weights=...).recommend(...)
EngineRecommend ==
    /\ app = "scoring"
    /\ ~result.done
    /\ result' = IF ValidWeights(request.weights)
                 THEN [done |-> TRUE, raised |-> FALSE,
                       value |-> Recommend(request, request.top_k)]
                 ELSE [done |-> TRUE, raised |-> TRUE, value |-> <<>>]
    /\ UNCHANGED storeVars
    /\ UNCHANGED <<app, request, llmAvailable>>
    /\ UNCHANGED apiVars
    /\ UNCHANGED engineVars

----------------------------------------------------------------------------
(* SpotifyFeatureExtractor of models/audio_profile.py.  The floats of the  *)
(* program are fixed-point numbers here: Unit stands for 1.0, and a mean   *)
(* or a quotient is kept to three decimals.                                *)

Unit == 100000

\* x to three decimals
Quant(x) == (x \div 100) * 100

\* x * 0.c for a coefficient of one decimal
Tenths(c, x) == (c * x) \div 10

\* np.clip(x, 0, 1)
Clip(x) == IF x < 0 THEN 0 ELSE IF x > Unit THEN Unit ELSE x

FeatureKeys ==
    {"danceability", "energy", "acousticness", "instrumentalness", "valence", "loudness"}

\* the tracks a profile is extracted from: two tracks of tests/fixtures.py
\* (SICKO MODE with a playlist_genre, Clair de Lune), a track whose features
\* lie far above their nominal ranges, one whose features lie far below,
\* a track without audio features, a track whose energy is present but
\* null, and a track whose playlist_genre is present but null.
\* has_features: the feature keys are in the dict; nulls: the keys whose
\* value is None; has_genre: the key playlist_genre is in the dict
TrackKinds ==
    {[has_features |-> TRUE, nulls |-> {}, has_genre |-> TRUE, playlist_genre |-> "Hip Hop",
      f |-> [danceability |-> 83000, energy |-> 83000, acousticness |-> 1000,
             instrumentalness |-> 0, valence |-> 45000, loudness |-> 0 - 371000]],
     [has_features |-> TRUE, nulls |-> {}, has_genre |-> TRUE, playlist_genre |-> "classical",
      f |-> [danceability |-> 28000, energy |-> 9000, acousticness |-> 99000,
             instrumentalness |-> 95000, valence |-> 6000, loudness |-> 0 - 2534000]],
     [has_features |-> TRUE, nulls |-> {}, has_genre |-> FALSE, playlist_genre |-> Null,
      f |-> [danceability |-> 5 * Unit, energy |-> 5 * Unit, acousticness |-> 5 * Unit,
             instrumentalness |-> 5 * Unit, valence |-> 5 * Unit, loudness |-> 30 * Unit]],
     [has_features |-> TRUE, nulls |-> {}, has_genre |-> FALSE, playlist_genre |-> Null,
      f |-> [danceability |-> 0 - 5 * Unit, energy |-> 0 - 5 * Unit,
             acousticness |-> 0 - 5 * Unit, instrumentalness |-> 0 - 5 * Unit,
             valence |-> 0 - 5 * Unit, loudness |-> 0 - 90 * Unit]],
     [has_features |-> FALSE, nulls |-> {}, has_genre |-> TRUE, playlist_genre |-> "pop",
      f |-> [k \in FeatureKeys |-> 0]],
     [has_features |-> TRUE, nulls |-> {"energy"}, has_genre |-> TRUE,
      playlist_genre |-> "hip hop",
      f |-> [danceability |-> 60000, energy |-> 0, acousticness |-> 20000,
             instrumentalness |-> 0, valence |-> 50000, loudness |-> 0 - 600000]],
     [has_features |-> TRUE, nulls |-> {}, has_genre |-> TRUE, playlist_genre |-> Null,
      f |-> [danceability |-> 60000, energy |-> 60000, acousticness |-> 20000,
             instrumentalness |-> 0, valence |-> 50000, loudness |-> 0 - 600000]]}

\* the argument of extract_from_tracks: n tracks, the first of one kind and
\* the others of another
TrackLists == [n : 0..MaxTracks, first : TrackKinds, others : TrackKinds]

TracksOf(inp) == [i \in 1..inp.n |-> IF i = 1 THEN inp.first ELSE inp.others]

RECURSIVE SumSeq(_)
SumSeq(q) == IF q = <<>> THEN 0 ELSE Head(q) + SumSeq(Tail(q))

\* np.mean(v) if v else 0.5, v the values of key in the tracks that have it
AvgFeature(tracks, key) ==
    LET v == SelectSeq(tracks, LAMBDA t : t.has_features /\ key \notin t.nulls)
    IN IF v = <<>> THEN Unit \div 2
       ELSE Quant(SumSeq([i \in 1..Len(v) |-> v[i].f[key]]) \div Len(v))

\* str.lower() on the genre labels of the tracks
Lower(genre) == IF genre = "Hip Hop" THEN "hip hop" ELSE genre

\* track['playlist_genre'].lower() raises AttributeError on None
GenreRaises(tracks) ==
    \E i \in 1..Len(tracks) : tracks[i].has_genre /\ tracks[i].playlist_genre = Null

\* genres: the number of tracks of every lowered playlist_genre
GenreCounts(tracks) ==
    LET tagged == {i \in 1..Len(tracks) : tracks[i].has_genre}
        seen == {Lower(tracks[i].playlist_genre) : i \in tagged}
    IN [g \in seen |-> Cardinality({i \in tagged : Lower(tracks[i].playlist_genre) = g})]

\* genre_weights: count / total_tracks for every genre seen
GenreWeights(tracks) ==
    LET genres == GenreCounts(tracks)
        total_tracks == Len(tracks)
    IN [g \in DOMAIN genres |-> (genres[g] * Unit) \div total_tracks]

\* a confidence that is not capped
ConfidenceUncapped(track_count) == (track_count * Unit) \div 20

\* _map_to_profile: confidence = min(1.0, track_count / 20)
Confidence(track_count) == Min(Unit, (track_count * Unit) \div 20)

\* SpotifyFeatureExtractor._map_to_profile
MapToProfile(features, genres, track_count) ==
    LET bass_pref == Tenths(4, features.energy) + Tenths(4, features.danceability)
                     + Tenths(2, Unit - features.acousticness)
        mids_pref == Tenths(6, Unit - features.instrumentalness)
                     + Tenths(4, features.acousticness)
        treble_pref == Tenths(5, features.energy) + Tenths(3, features.valence)
                       + Tenths(2, Unit - features.acousticness)
        soundstage == Tenths(6, features.acousticness)
                      + Tenths(4, features.instrumentalness)
        normalized_loudness == Quant((features.loudness + 60 * Unit) \div 60)
        imaging == Unit - Tenths(5, normalized_loudness)
        warmth == Tenths(3, Unit - features.energy) + Tenths(3, features.valence)
                  + Tenths(4, features.acousticness)
        brightness == Tenths(6, features.energy) + Tenths(4, features.valence)
        energy_level == features.energy
        dynamic_range == Tenths(6, Unit - normalized_loudness)
                         + Tenths(4, features.acousticness)
    IN [bass_preference |-> Clip(bass_pref),
        mids_preference |-> Clip(mids_pref),
        treble_preference |-> Clip(treble_pref),
        soundstage_width |-> Clip(soundstage),
        imaging_precision |-> Clip(imaging),
        warmth |-> Clip(warmth),
        brightness |-> Clip(brightness),
        energy_level |-> energy_level,
        dynamic_range |-> Clip(dynamic_range),
        genre_weights |-> genres,
        confidence |-> Confidence(track_count)]

\* SpotifyFeatureExtractor._default_profile
DefaultProfile ==
    [bass_preference |-> Unit \div 2,
     mids_preference |-> Unit \div 2,
     treble_preference |-> Unit \div 2,
     soundstage_width |-> Unit \div 2,
     imaging_precision |-> Unit \div 2,
     warmth |-> Unit \div 2,
     brightness |-> Unit \div 2,
     energy_level |-> Unit \div 2,
     dynamic_range |-> Unit \div 2,
     genre_weights |-> <<>>,
     confidence |-> 0]

\* extract_from_tracks raises: the loop over a non-empty list reaches a track
\* whose genre tag is None
ExtractRaises(tracks) == tracks # <<>> /\ GenreRaises(tracks)

\* SpotifyFeatureExtractor.extract_from_tracks, when it returns
ExtractFromTracks(tracks) ==
    IF tracks = <<>> THEN DefaultProfile
    ELSE MapToProfile([k \in FeatureKeys |-> AvgFeature(tracks, k)],
                      GenreWeights(tracks), Len(tracks))

\* manual_prefs.get(key, default)
Get(d, key, default) == IF key \in DOMAIN d THEN d[key] ELSE default

\* a blend with the two weights swapped
BlendSwapped(blend_weight, slider, derived) ==
    ((100 - blend_weight) * slider + blend_weight * derived) \div 100

\* blend_weight * slider + (1 - blend_weight) * derived, blend_weight in percent
Blend(blend_weight, slider, derived) ==
    (blend_weight * slider + (100 - blend_weight) * derived) \div 100

\* SpotifyFeatureExtractor.enhance_with_manual_preferences
EnhanceWithManualPreferences(profile, manual_prefs, blend_weight) ==
    [bass_preference |->
         Blend(blend_weight, Get(manual_prefs, "bass", profile.bass_preference),
               profile.bass_preference),
     mids_preference |->
         Blend(blend_weight, Get(manual_prefs, "mids", profile.mids_preference),
               profile.mids_preference),
     treble_preference |->
         Blend(blend_weight, Get(manual_prefs, "treble", profile.treble_preference),
               profile.treble_preference),
     soundstage_width |->
         Blend(blend_weight, Get(manual_prefs, "soundstage", profile.soundstage_width),
               profile.soundstage_width),
     imaging_precision |-> profile.imaging_precision,
     warmth |-> profile.warmth,
     brightness |-> profile.brightness,
     energy_level |-> profile.energy_level,
     dynamic_range |-> profile.dynamic_range,
     genre_weights |-> profile.genre_weights,
     confidence |-> IF profile.confidence > (8 * Unit) \div 10 THEN profile.confidence
                    ELSE (8 * Unit) \div 10]

\* the slider maps of a request: sound_preferences with the keys of the
\* request model (bass, mids, treble, soundstage, detail) or some of them,
\* every slider in [0,1]
SliderKeySets ==
    {{}, {"bass"}, {"soundstage", "detail"},
     {"bass", "mids", "treble", "soundstage", "detail"}}

SliderValues == {0, (9 * Unit) \div 10, Unit}

SliderMaps == {[k \in K |-> v] : K \in SliderKeySets, v \in SliderValues}

\* blend_weight in percent; get_recommendations passes 0.7
BlendWeights == {30, 70, 100}

\* extract_from_tracks(tracks)
ExtractProfile ==
    /\ app = "profile"
    /\ ~result.done
    /\ LET tracks == TracksOf(request)
           raises == ExtractRaises(tracks)
           profile == IF raises THEN <<>> ELSE ExtractFromTracks(tracks)
       IN result' = [done |-> TRUE, raised |-> raises, enhanced |-> FALSE,
                     derived |-> profile, manual_prefs |-> <<>>, blend_weight |-> 0,
                     profile |-> profile]
    /\ UNCHANGED storeVars
    /\ UNCHANGED <<app, request, llmAvailable>>
    /\ UNCHANGED apiVars
    /\ UNCHANGED engineVars

\* enhance_with_manual_preferences(profile, manual_prefs, blend_weight)
EnhanceProfile ==
    /\ app = "profile"
    /\ result.done
    /\ ~result.raised
    /\ ~result.enhanced
    /\ \E manual_prefs \in SliderMaps, blend_weight \in BlendWeights :
           result' = [result EXCEPT
                         !.enhanced = TRUE,
                         !.manual_prefs = manual_prefs,
                         !.blend_weight = blend_weight,
                         !.profile = EnhanceWithManualPreferences(
                                         result.derived, manual_prefs, blend_weight)]
    /\ UNCHANGED storeVars
    /\ UNCHANGED <<app, request, llmAvailable>>
    /\ UNCHANGED apiVars
    /\ UNCHANGED engineVars

----------------------------------------------------------------------------
(* Headphone._derive_characteristics of models/headphone.py, in the same   *)
(* fixed-point numbers                                                     *)

\* Unit / 100: 0.01
Hundredth == Unit \div 100

\* a final step that clips nothing
Unclipped(x) == x

\* min(x, 1.0)
AtMostOne(x) == Min(x, Unit)

\* the arguments of _derive_characteristics: every type, use case and sound
\* profile, the three bass levels and one the table does not know, and
\* prices from nothing to well above the 1000 the price factor saturates at
HeadphoneSpecs ==
    [hp_type : {"OVER_EAR", "ON_EAR", "IN_EAR", "BONE_CONDUCTION"},
     use_case : {"STUDIO", "GAMING", "CASUAL", "WORKOUT"},
     sound_profile : {"FLAT", "BALANCED", "BASS_HEAVY"},
     bass_level : {"Low", "Medium", "High", "Unknown"},
     has_anc : BOOLEAN,
     price : {0, 150, 1000, 5000}]

\* Headphone._derive_characteristics
DeriveCharacteristics(hp_type, use_case, sound_profile, bass_level, has_anc, price) ==
    LET base == CASE sound_profile = "FLAT" ->
                         [bass |-> 50, mids |-> 50, treble |-> 50, warmth |-> 30, detail |-> 90]
                  [] sound_profile = "BALANCED" ->
                         [bass |-> 60, mids |-> 60, treble |-> 60, warmth |-> 50, detail |-> 70]
                  [] OTHER ->
                         [bass |-> 90, mids |-> 40, treble |-> 40, warmth |-> 70, detail |-> 50]
        multiplier == CASE bass_level = "Low" -> 7
                        [] bass_level = "High" -> 13
                        [] OTHER -> 10
        bass1 == AtMostOne(Tenths(multiplier, base.bass * Hundredth))
        form == CASE hp_type = "OVER_EAR" -> [soundstage |-> 80, imaging |-> 80, comfort |-> 80]
                  [] hp_type = "ON_EAR" -> [soundstage |-> 60, imaging |-> 60, comfort |-> 60]
                  [] hp_type = "IN_EAR" -> [soundstage |-> 40, imaging |-> 50, comfort |-> 70]
                  [] OTHER -> [soundstage |-> 30, imaging |-> 30, comfort |-> 90]
        studio == use_case = "STUDIO"
        gaming == use_case = "GAMING"
        imaging == form.imaging * Hundredth + (IF studio THEN 20 * Hundredth ELSE 0)
        soundstage == form.soundstage * Hundredth
                      + (IF studio THEN 10 * Hundredth ELSE 0)
                      + (IF gaming THEN 15 * Hundredth ELSE 0)
        bass == bass1 + (IF gaming THEN 10 * Hundredth ELSE 0)
        isolation == IF has_anc THEN 80 * Hundredth ELSE 50 * Hundredth
        price_factor == Min((price * Unit) \div 1000, Unit)
        durability == 50 * Hundredth + Tenths(5, price_factor)
        detail == base.detail * Hundredth + (IF studio THEN 10 * Hundredth ELSE 0)
                  + Tenths(1, price_factor)
    IN [bass_response |-> AtMostOne(bass),
        mids_response |-> AtMostOne(base.mids * Hundredth),
        treble_response |-> AtMostOne(base.treble * Hundredth),
        soundstage_width |-> AtMostOne(soundstage),
        imaging_quality |-> AtMostOne(imaging),
        warmth |-> AtMostOne(base.warmth * Hundredth),
        detail_retrieval |-> AtMostOne(detail),
        isolation |-> isolation,
        comfort_score |-> AtMostOne(form.comfort * Hundredth),
        durability_score |-> durability]

\* Headphone._derive_characteristics(...) called on the specs of the request
DeriveHeadphone ==
    /\ app = "headphone"
    /\ ~result.done
    /\ result' = [done |-> TRUE,
                  characteristics |->
                      DeriveCharacteristics(request.hp_type, request.use_case,
                                            request.sound_profile, request.bass_level,
                                            request.has_anc, request.price)]
    /\ UNCHANGED storeVars
    /\ UNCHANGED <<app, request, llmAvailable>>
    /\ UNCHANGED apiVars
    /\ UNCHANGED engineVars

----------------------------------------------------------------------------
(* The recommendation endpoints of api/v1/recommendations.py with the      *)
(* Redis cache of core/cache.py, and process_recommendation_task.  A       *)
(* session id is the index of its row.                                     *)

\* a row of recommendation_sessions: its status, the number of its
\* HeadphoneMatch rows, whether error_message is set
SessionRow(status, match_count, error_message) ==
    [status |-> status, matches |-> match_count, error_message |-> error_message]

\* the deployment a behaviour starts in: whether RedisCache.initialize
\* reached Redis, and the sessions created PENDING for a background task
Deployments == [redis_up : BOOLEAN, pending : 0..1]

\* what a call of RecommendationEngine.generate_recommendations ends with:
\* a return, or one of the exceptions it raises
EngineOutcomes == {"none", "LLMException", "DatabaseException"}

\* the numbers of matches _save_matches stored for a session
MatchCounts == 0..2

\* the row generate_recommendations leaves committed
EngineRow(outcome, n) ==
    IF outcome = "none" THEN SessionRow("COMPLETE", n, FALSE)
    ELSE SessionRow("ERROR", n, TRUE)

\* RedisCache.set: nothing when the cache is not initialised
CacheSet(entries, key, value, up) ==
    IF ~up THEN entries
    ELSE [k \in DOMAIN entries \cup {key} |-> IF k = key THEN value ELSE entries[k]]

\* RedisCache.get: None when the cache is not initialised or the key is missing
CacheGet(entries, key, up) ==
    IF up /\ key \in DOMAIN entries
    THEN [hit |-> TRUE, value |-> entries[key]]
    ELSE [hit |-> FALSE, value |-> <<>>]

\* generate_recommendations (POST): `if session.status == SessionStatus.COMPLETE`
CompleteSession(row) == row.status = "COMPLETE"

\* a GET that caches whatever it fetched
CacheableAlways(row) == TRUE

\* get_recommendation_session: `session.status == SessionStatus.COMPLETE and session.matches`
Cacheable(row) == row.status = "COMPLETE" /\ row.matches > 0

\* the RecommendationResponse built from a session row; recommendations is
\* the number of matches it lists
SessionResponse(session_id, row) ==
    [session_id |-> session_id,
     status |-> row.status,
     recommendations |-> IF Cacheable(row) THEN row.matches ELSE 0]

NoBody == [session_id |-> 0, status |-> "none", recommendations |-> 0]

NoTask == [pc |-> "idle", session_id |-> 0, returned |-> 0, retries |-> 0]

\* max_retries of process_recommendation_task
TaskMaxRetries == 3

\* POST /recommend: the whole handler, generate_recommendations ending with
\* outcome and n matches
PostRecommend(outcome, n) ==
    /\ app = "sessions"
    /\ Len(dbSessions) < MaxSessions
    /\ LET session_id == Len(dbSessions) + 1
           row == EngineRow(outcome, n)
           response == SessionResponse(session_id, row)
       IN /\ dbSessions' = Append(dbSessions, row)
          /\ IF outcome = "none"
             THEN /\ sessionCache' = IF CompleteSession(row)
                                     THEN CacheSet(sessionCache, session_id, response,
                                                   request.redis_up)
                                     ELSE sessionCache
                  /\ result' = [done |-> TRUE, handler |-> "POST", from_cache |-> FALSE,
                                http |-> 200, body |-> response]
             ELSE /\ UNCHANGED sessionCache
                  /\ result' = [done |-> TRUE, handler |-> "POST", from_cache |-> FALSE,
                                http |-> ApiStatus(outcome), body |-> NoBody]
    /\ UNCHANGED <<headphoneCache, explanationCache, externalCalls, task>>
    /\ UNCHANGED <<app, request, llmAvailable>>
    /\ UNCHANGED apiVars
    /\ UNCHANGED engineVars

\* GET /recommendations/{session_id}: the whole handler
GetSession(session_id) ==
    /\ app = "sessions"
    /\ LET cached == CacheGet(sessionCache, session_id, request.redis_up)
       IN IF cached.hit
          THEN /\ result' = [done |-> TRUE, handler |-> "GET", from_cache |-> TRUE,
                             http |-> 200, body |-> cached.value]
               /\ UNCHANGED sessionCache
          ELSE IF session_id \notin DOMAIN dbSessions
          THEN /\ result' = [done |-> TRUE, handler |-> "GET", from_cache |-> FALSE,
                             http |-> 404, body |-> NoBody]
               /\ UNCHANGED sessionCache
          ELSE LET row == dbSessions[session_id]
                   response == SessionResponse(session_id, row)
               IN /\ result' = [done |-> TRUE, handler |-> "GET", from_cache |-> FALSE,
                                http |-> 200, body |-> response]
                  /\ sessionCache' = IF Cacheable(row)
                                     THEN CacheSet(sessionCache, session_id, response,
                                                   request.redis_up)
                                     ELSE sessionCache
    /\ UNCHANGED <<dbSessions, headphoneCache, explanationCache, externalCalls, task>>
    /\ UNCHANGED <<app, request, llmAvailable>>
    /\ UNCHANGED apiVars
    /\ UNCHANGED engineVars

\* the entry of a session leaves the cache when its time to live is over
SessionExpires(session_id) ==
    /\ app = "sessions"
    /\ session_id \in DOMAIN sessionCache
    /\ sessionCache' = [k \in DOMAIN sessionCache \ {session_id} |-> sessionCache[k]]
    /\ UNCHANGED <<dbSessions, headphoneCache, explanationCache, externalCalls, task,
                   result>>
    /\ UNCHANGED <<app, request, llmAvailable>>
    /\ UNCHANGED apiVars
    /\ UNCHANGED engineVars

\* process_recommendation_task(session_id, preference_id) up to its call of
\* the engine: the session is fetched, set to PROCESSING and committed.  A
\* task starts on a PENDING session, or again on its own session after a
\* retry.
TaskStarts(session_id) ==
    /\ app = "sessions"
    /\ session_id \in DOMAIN dbSessions
    /\ Len(dbSessions) < MaxSessions
    /\ \/ task.pc = "idle" /\ dbSessions[session_id].status = "PENDING"
       \/ task.pc = "retry" /\ task.session_id = session_id
    /\ dbSessions' = [dbSessions EXCEPT ![session_id].status = "PROCESSING"]
    /\ task' = [task EXCEPT !.pc = "running", !.session_id = session_id]
    /\ UNCHANGED <<sessionCache, headphoneCache, explanationCache, externalCalls, result>>
    /\ UNCHANGED <<app, request, llmAvailable>>
    /\ UNCHANGED apiVars
    /\ UNCHANGED engineVars

\* process_recommendation_task from the end of generate_recommendations: the
\* engine has committed a session of its own; the task returns its id, or
\* marks the session it was given ERROR and asks for a retry
TaskEngineEnds(outcome, n) ==
    /\ app = "sessions"
    /\ task.pc = "running"
    /\ LET updated_session == Len(dbSessions) + 1
           created == Append(dbSessions, EngineRow(outcome, n))
       IN IF outcome = "none"
          THEN /\ dbSessions' = created
               /\ task' = [task EXCEPT !.pc = "succeeded", !.returned = updated_session]
          ELSE /\ dbSessions' = [created EXCEPT ![task.session_id] =
                                     SessionRow("ERROR", @.matches, TRUE)]
               /\ task' = [task EXCEPT
                              !.pc = IF task.retries < TaskMaxRetries
                                     THEN "retry" ELSE "failed",
                              !.retries = IF task.retries < TaskMaxRetries
                                          THEN @ + 1 ELSE @]
    /\ UNCHANGED <<sessionCache, headphoneCache, explanationCache, externalCalls, result>>
    /\ UNCHANGED <<app, request, llmAvailable>>
    /\ UNCHANGED apiVars
    /\ UNCHANGED engineVars

----------------------------------------------------------------------------
(* GET /headphones of sonicmatch-backend api/v1/headphones.py with the     *)
(* filter cache of core/cache.py                                           *)

\* stands for a price filter that is None
NoPrice == -1

\* the query parameters of a request (the filters dict of the handler) and
\* whether the cache is initialised; the other filters are None
CatalogQueries ==
    [has_anc : {Null, "true", "false"}, price_max : {NoPrice, 50, 300, 600},
     page : 1..2, limit : {2, 20}, redis_up : BOOLEAN]

\* the where clauses of list_headphones
MatchesFilters(h, filters) ==
    /\ filters.price_max # NoPrice => h.price <= filters.price_max
    /\ filters.has_anc # Null => h.anc = (filters.has_anc = "true")

\* the headphones of the query, ordered by price (the catalog is in price
\* order)
RECURSIVE Filtered(_, _)
Filtered(i, filters) ==
    IF i > MaxCatalog THEN <<>>
    ELSE (IF MatchesFilters(Catalog[i], filters) THEN <<Catalog[i].id>> ELSE <<>>)
         \o Filtered(i + 1, filters)

\* math.ceil(total / limit)
Ceil(total, limit) == (total + limit - 1) \div limit

\* PaginatedResponse.create
PaginatedResponse(items, total, page, limit) ==
    [kind |-> "PaginatedResponse", items |-> items, total |-> total, page |-> page,
     limit |-> limit, pages |-> IF limit > 0 THEN Ceil(total, limit) ELSE 0]

\* list_headphones answered from the database: the count, the page of the
\* query, the response
ListFromDatabase(filters) ==
    LET matching == Filtered(1, filters)
        total == Len(matching)
        offset == (filters.page - 1) * filters.limit
        items == SubSeq(matching, offset + 1, Min(offset + filters.limit, total))
    IN PaginatedResponse(items, total, filters.page, filters.limit)

\* the key of cache_headphones: the hash of the filters, one key for one
\* combination of filters
FilterKey(query) ==
    [has_anc |-> query.has_anc, price_max |-> query.price_max, page |-> query.page,
     limit |-> query.limit]

\* GET /headphones: the whole handler.  `if cached:` is true for a list
\* that is not empty, and the handler returns that list.
ListHeadphones ==
    /\ app = "catalog"
    /\ LET filters == FilterKey(request)
           cached == CacheGet(headphoneCache, filters, request.redis_up)
       IN IF cached.hit /\ cached.value # <<>>
          THEN /\ result' = [done |-> TRUE, from_cache |-> TRUE,
                             body |-> [kind |-> "list", items |-> cached.value]]
               /\ UNCHANGED headphoneCache
          ELSE LET response == ListFromDatabase(request)
               IN /\ result' = [done |-> TRUE, from_cache |-> FALSE, body |-> response]
                  /\ headphoneCache' = CacheSet(headphoneCache, filters, response.items,
                                                request.redis_up)
    /\ UNCHANGED <<dbSessions, sessionCache, explanationCache, externalCalls, task>>
    /\ UNCHANGED <<app, request, llmAvailable>>
    /\ UNCHANGED apiVars
    /\ UNCHANGED engineVars

\* the entry of the filters leaves the cache when its time to live is over
HeadphonesExpire ==
    /\ app = "catalog"
    /\ DOMAIN headphoneCache # {}
    /\ headphoneCache' = <<>>
    /\ UNCHANGED <<dbSessions, sessionCache, explanationCache, externalCalls, task,
                   result>>
    /\ UNCHANGED <<app, request, llmAvailable>>
    /\ UNCHANGED apiVars
    /\ UNCHANGED engineVars

----------------------------------------------------------------------------
(* CachedLLMService of services/llm_service.py *)

\* CachedLLMService(api_key, cache_size)
CachedServices == [cache_size : 0..MaxCacheSize]

ExplainedHeadphones == 1..2

\* the profiles explanations are asked for; the first two differ only in
\* the second decimal of bass_preference
ExplainedProfiles ==
    {[bass_preference |-> b, mids_preference |-> Unit \div 2,
      treble_preference |-> Unit \div 2] : b \in {52000, 54000, 60000}}

\* what client.messages.create does for an explanation: it returns one of
\* two texts or it raises
ExplanationOutcomes == {"text a", "text b", "raise"}

\* f"{x:.1f}": x to one decimal, in tenths
OneDecimal(x) == (x + Unit \div 20) \div (Unit \div 10)

\* CachedLLMService._hash_profile
HashProfile(profile) ==
    <<OneDecimal(profile.bass_preference), OneDecimal(profile.mids_preference),
      OneDecimal(profile.treble_preference)>>

\* LLMService.generate_explanation: the text of the answer, or the fallback
\* explanation when the call raised
ExplanationOf(outcome) == IF outcome = "raise" THEN "fallback" ELSE outcome

\* a cache that takes every explanation
CacheAlwaysHasRoom(cache, cache_size) == TRUE

\* CachedLLMService.generate_explanation: `len(self.explanation_cache) < self.cache_size`
CacheHasRoom(cache, cache_size) == Cardinality(DOMAIN cache) < cache_size

\* CachedLLMService.generate_explanation(user_profile, headphone, scores, rank)
GenerateExplanation(headphone_id, profile, outcome) ==
    /\ app = "explain"
    /\ LET cache_key == <<headphone_id, HashProfile(profile)>>
       IN IF cache_key \in DOMAIN explanationCache
          THEN /\ result' = [done |-> TRUE, key |-> cache_key, hit |-> TRUE,
                             text |-> explanationCache[cache_key]]
               /\ UNCHANGED <<explanationCache, externalCalls>>
          ELSE /\ externalCalls < CallCap
               /\ externalCalls' = externalCalls + 1
               /\ result' = [done |-> TRUE, key |-> cache_key, hit |-> FALSE,
                             text |-> ExplanationOf(outcome)]
               /\ explanationCache' =
                      IF CacheHasRoom(explanationCache, request.cache_size)
                      THEN [k \in DOMAIN explanationCache \cup {cache_key} |->
                               IF k = cache_key THEN ExplanationOf(outcome)
                               ELSE explanationCache[k]]
                      ELSE explanationCache
    /\ UNCHANGED <<dbSessions, sessionCache, headphoneCache, task>>
    /\ UNCHANGED <<app, request, llmAvailable>>
    /\ UNCHANGED apiVars
    /\ UNCHANGED engineVars

----------------------------------------------------------------------------

Init ==
    /\ app \in {"backend", "sonicmatch", "scoring", "profile", "headphone", "sessions",
               "catalog", "explain"}
    /\ request \in CASE app = "backend" -> Requests
                    [] app = "sonicmatch" -> Preferences
                    [] app = "scoring" -> EngineCalls
                    [] app = "profile" -> TrackLists
                    [] app = "headphone" -> HeadphoneSpecs
                    [] app = "sessions" -> Deployments
                    [] app = "catalog" -> CatalogQueries
                    [] app = "explain" -> CachedServices
    /\ result = NoResult
    /\ llmAvailable \in IF app = "backend" THEN BOOLEAN ELSE {TRUE}
    /\ apiPc = "received"
    /\ recs = <<>>
    /\ det = <<>>
    /\ llmResult = NoLlmResult
    /\ jsonParsed = FALSE
    /\ llmAnalysis = EmptyDict
    /\ svcOutcome = "none"
    /\ apiCalls = 0
    /\ httpStatus = 0
    /\ respRecs = <<>>
    /\ respInsights = NullInsights
    /\ enginePc = "idle"
    /\ sessionStatus = "none"
    /\ candidates = <<>>
    /\ clientPc = "Idle"
    /\ attempt = 0
    /\ clientCalls = 0
    /\ inFlight = 0
    /\ waits = <<>>
    /\ lastFailure = "none"
    /\ raised = "none"
    /\ matches = <<>>
    /\ llmEntries = <<>>
    /\ dbSessions = IF app = "sessions"
                    THEN [i \in 1..request.pending |-> SessionRow("PENDING", 0, FALSE)]
                    ELSE <<>>
    /\ task = NoTask
    /\ sessionCache = <<>>
    /\ headphoneCache = <<>>
    /\ explanationCache = <<>>
    /\ externalCalls = 0

Next ==
    \/ GetRecommendations
    \/ ServiceRaises
    \/ ServiceAnswers
    \/ StartGeneration
    \/ \E kind \in FailureKinds : CallFails(kind)
    \/ BackoffElapses
    \/ CallReturns
    \/ RefreshReturns
    \/ RefreshFails
    \/ EngineRecommend
    \/ ExtractProfile
    \/ EnhanceProfile
    \/ DeriveHeadphone
    \/ \E outcome \in EngineOutcomes, n \in MatchCounts : PostRecommend(outcome, n)
    \/ \E session_id \in 1..MaxSessions : GetSession(session_id)
    \/ \E session_id \in 1..MaxSessions : SessionExpires(session_id)
    \/ \E session_id \in 1..MaxSessions : TaskStarts(session_id)
    \/ \E outcome \in EngineOutcomes, n \in MatchCounts : TaskEngineEnds(outcome, n)
    \/ ListHeadphones
    \/ HeadphonesExpire
    \/ \E headphone_id \in ExplainedHeadphones, profile \in ExplainedProfiles,
          outcome \in ExplanationOutcomes :
              GenerateExplanation(headphone_id, profile, outcome)

Spec == Init /\ [][Next]_vars

\* every external call carries a timeout, so a call that nothing else ends is
\* ended by its timeout; every asyncio.sleep returns
LiveSpec ==
    /\ Spec
    /\ WF_vars(ServiceRaises)
    /\ WF_vars(CallFails("timeout"))
    /\ WF_vars(BackoffElapses)


----------------------------------------------------------------------------
(* Vocabulary of the properties *)

\* the recommendations get_recommendations hands to the refinement
Passed(list) == SubSeq(list, 1, Min(RefineTop, Len(list)))

RankOf(list) == [i \in 1..Len(list) |-> list[i].rank]

SameDeterministicFields(a, b) ==
    /\ a.headphone = b.headphone
    /\ a.scores = b.scores
    /\ a.match_highlights = b.match_highlights
    /\ a.trade_offs = b.trade_offs

\* r is a bijection over the candidate indices 1..n
IsPermutation(r, n) == Len(r) = n /\ Range(r) = 1..n

\* refine_recommendations was called and has returned to get_recommendations
RunEnded == app = "backend" /\ apiPc = "responded" /\ llmResult.returned

\* the state of the refinement run in the terms of the state machine
\* Idle, Requesting, Retrying, Succeeded, Fallback
RunState ==
    IF app = "backend"
    THEN CASE apiPc = "refining" -> "Requesting"
           [] RunEnded /\ ~llmResult.has_error -> "Succeeded"
           [] RunEnded /\ llmResult.has_error -> "Fallback"
           [] OTHER -> "Idle"
    ELSE CASE clientPc \in {"Requesting", "Retrying"} -> clientPc
           [] clientPc = "Succeeded" /\ lastFailure # "malformed" -> "Succeeded"
           [] clientPc = "Succeeded" /\ lastFailure = "malformed" -> "Fallback"
           [] clientPc = "Failed" -> "Fallback"
           [] OTHER -> "Idle"

TerminalStates == {"Succeeded", "Fallback"}

----------------------------------------------------------------------------
(* Properties *)

\* C1: when every call to the external service fails, the refinement run
\* returns the recommendations it was given exactly as they were (order,
\* rank, scores, highlights, trade-offs) with null insights, and the run
\* makes at most 3 external calls.
C1_FallbackWhenEveryCallFails ==
    /\ (RunEnded /\ svcOutcome = "raise") =>
           /\ llmResult.recommendations = Passed(det)
           /\ llmResult.llm_insights.is_null
           /\ respInsights.is_null
           /\ apiCalls <= MaxRetries
    /\ (app = "sonicmatch" /\ clientPc = "Failed") => clientCalls <= MaxRetries

C1_Witness == RunEnded /\ svcOutcome = "raise" /\ Len(det) > 1

\* C2: when the answer carries a re-ranking that is not a bijection over the
\* candidate indices 1..K, the run ends as in the timeout case: order and
\* ranks unchanged, insights null.
C2_InvalidPermutationFallsBack ==
    (/\ RunEnded
     /\ svcOutcome = "content"
     /\ jsonParsed
     /\ llmAnalysis.kind = "dict"
     /\ llmAnalysis.has_ranking
     /\ ~IsPermutation(llmAnalysis.ranking, Len(Passed(det))))
    => /\ llmResult.recommendations = Passed(det)
       /\ RankOf(recs) = RankOf(det)
       /\ respInsights.is_null

\* C3: after any refinement run the recommendations returned carry either the
\* original ranks or the ranks of one valid permutation applied in full:
\* every input recommendation is there exactly once, no two share a rank,
\* and a run that ends in fallback has changed no rank.
C3_NoPartialRanking ==
    RunEnded =>
        LET before == Passed(det)
            returned == llmResult.recommendations
        IN /\ Len(returned) = Len(before)
           /\ \A i \in 1..Len(before) :
                  Cardinality({k \in 1..Len(returned) :
                                   returned[k].headphone = before[i].headphone}) = 1
           /\ \A j, k \in 1..Len(returned) :
                  j # k => returned[j].rank # returned[k].rank
           /\ llmResult.has_error => RankOf(recs) = RankOf(det)

\* C4: when the text of the answer holds no parseable document, the run is
\* treated as a failure: the original ranking unmodified and null insights.
C4_UnparseableIsFailure ==
    (RunEnded /\ svcOutcome = "content" /\ ~jsonParsed)
    => /\ llmResult.recommendations = Passed(det)
       /\ RankOf(recs) = RankOf(det)
       /\ respInsights.is_null

\* C5: a refinement run changes only the rank of the recommendations passed
\* to it: scores, highlights and trade-offs of every recommendation are as
\* before, and the recommendations below the refined top keep every field.
C5_OnlyRankChanges ==
    RunEnded =>
        /\ Len(recs) = Len(det)
        /\ \A i \in 1..Len(det) : SameDeterministicFields(recs[i], det[i])
        /\ \A i \in 1..Len(det) : i > RefineTop => recs[i] = det[i]
        /\ \A k \in 1..Len(llmResult.recommendations) :
               \E i \in 1..Len(Passed(det)) :
                   SameDeterministicFields(llmResult.recommendations[k], det[i])

C5_Witness ==
    /\ RunEnded
    /\ ~llmResult.has_error
    /\ Len(det) > RefineTop
    /\ RankOf(recs) # RankOf(det)

\* C6: a failure of the refinement stage never fails the request: whenever the
\* deterministic ranking is not empty the endpoint answers 200 with the
\* complete deterministic list (and with its ranks when the service raised).
C6_RefinementNeverFailsRequest ==
    (app = "backend" /\ apiPc = "responded" /\ det # <<>>) =>
        /\ httpStatus = 200
        /\ Len(respRecs) = Len(det)
        /\ \A i \in 1..Len(det) : SameDeterministicFields(respRecs[i], det[i])
        /\ svcOutcome = "raise" => RankOf(respRecs) = RankOf(det)

C6_Witness == RunEnded /\ llmResult.has_error /\ httpStatus = 200 /\ respRecs # <<>>

\* C7: on a transient failure of the external call (timeout, transport error,
\* malformed response) the orchestrator retries: a run that fails on such a
\* failure has used its 3 attempts.
C7_RetriesOnTransientFailure ==
    (/\ app = "sonicmatch"
     /\ enginePc = "done"
     /\ raised = "LLMException"
     /\ lastFailure \in {"timeout", "transport", "malformed"})
    => clientCalls = MaxRetries

\* C8: on a non-retryable failure (an authorization failure) the orchestrator
\* goes to fallback at once: one external call, no backoff wait, no retry.
C8_NoRetryOnFatalFailure ==
    (app = "sonicmatch" /\ lastFailure = "auth")
    => /\ clientPc = "Failed"
       /\ clientCalls = 1
       /\ waits = <<>>

\* C9: every refinement run eventually reaches one of the terminal states
\* Succeeded and Fallback, whatever the external service does, and never
\* leaves a terminal state.
C9_RunTerminates ==
    /\ (RunState \in {"Requesting", "Retrying"}) ~> (RunState \in TerminalStates)
    /\ [][(RunState \in TerminalStates) => (RunState' = RunState)]_vars

C9_Witness ==
    /\ app = "sonicmatch"
    /\ RunState = "Fallback"
    /\ clientCalls = MaxRetries
    /\ Len(waits) = MaxRetries - 1

\* C10: the external refinement call is attempted only after the complete
\* deterministic ranking of the request has been computed, and never when
\* the candidate set is empty after hard filtering.
C10_CallOnlyAfterRanking ==
    /\ (app = "backend" /\ apiCalls > 0) =>
           /\ Surviving(1, request) # <<>>
           /\ det # <<>>
           /\ Len(det) = Min(TopK, Len(Surviving(1, request)))
           /\ \A i \in 1..Len(det) : det[i].rank = i
    /\ (app = "sonicmatch" /\ clientCalls > 0) =>
           /\ candidates # <<>>
           /\ sessionStatus # "none"

C10_Witness == app = "backend" /\ apiPc = "refining" /\ apiCalls = 1 /\ Len(det) > 1

\* C11: no candidate that reaches scoring or the external service has a price
\* above max * 1.10 or below min, and none lacks a required capability
\* (active noise cancellation, wireless).
C11_HardFilterAdmitsOnlyMatching ==
    LET Admissible(h) ==
            /\ h.price >= request.budget[1]
            /\ h.price * 100 <= request.budget[2] * 110
            /\ request.anc_required => h.anc
            /\ request.wireless_required => h.wireless
    IN /\ app = "backend" => \A i \in 1..Len(det) : Admissible(Catalog[det[i].headphone])
       /\ app = "sonicmatch" =>
              \A i \in 1..Len(candidates) : Admissible(Catalog[candidates[i]])
       /\ (app = "scoring" /\ result.done) =>
              \A i \in 1..Len(result.value) :
                  Admissible(Catalog[result.value[i].headphone])

C11_Witness ==
    /\ app = "sonicmatch"
    /\ clientCalls > 0
    /\ request.anc_required
    /\ \E i \in 1..MaxCatalog :
           /\ ~Catalog[i].anc
           /\ Catalog[i].price >= request.budget[1]
           /\ Catalog[i].price <= request.budget[2]

\* the list engine.recommend returned and the top_k it was called with
Ranked == IF app = "scoring" THEN result.value ELSE det

RankedTopK == IF app = "scoring" THEN request.top_k ELSE TopK

\* engine.recommend has returned (in get_recommendations: the step after it)
EngineReturned ==
    \/ app = "backend" /\ apiPc # "received" /\ ~llmResult.returned
    \/ app = "scoring" /\ result.done /\ ~result.raised

\* C12: the ranks of the recommendations the scoring engine returns are
\* exactly 1..N' (N' the number returned), each used once, and the first
\* element of the list has rank 1.
C12_RanksContiguous ==
    EngineReturned =>
        /\ {Ranked[i].rank : i \in 1..Len(Ranked)} = 1..Len(Ranked)
        /\ \A i, j \in 1..Len(Ranked) : i # j => Ranked[i].rank # Ranked[j].rank
        /\ Ranked # <<>> => Ranked[1].rank = 1

C12_Witness ==
    /\ app = "scoring"
    /\ EngineReturned
    /\ Len(Ranked) = MaxTopK
    /\ Len(Surviving(1, request)) > MaxTopK
    /\ Ranked[1].headphone # Surviving(1, request)[1]

\* C13: the list the scoring engine returns is the first min(K, N) of the
\* surviving candidates sorted by overall score descending, candidates of
\* equal overall score in catalog order; it never holds more than K.
C13_SortedStableTopK ==
    EngineReturned =>
        LET surviving == Surviving(1, request)
            Chosen == {Ranked[i].headphone : i \in 1..Len(Ranked)}
            Before(a, b) ==
                \/ Scores(Catalog[a], request).overall > Scores(Catalog[b], request).overall
                \/ /\ Scores(Catalog[a], request).overall = Scores(Catalog[b], request).overall
                   /\ a < b
        IN /\ Len(Ranked) = Min(RankedTopK, Len(surviving))
           /\ Len(Ranked) <= RankedTopK
           /\ Chosen \subseteq Range(surviving)
           /\ Cardinality(Chosen) = Len(Ranked)
           /\ \A i, j \in 1..Len(Ranked) :
                  i < j => Before(Ranked[i].headphone, Ranked[j].headphone)
           /\ \A c \in Range(surviving) \ Chosen :
                  \A i \in 1..Len(Ranked) : Before(Ranked[i].headphone, c)
           /\ \A i \in 1..Len(Ranked) :
                  Ranked[i].scores = Scores(Catalog[Ranked[i].headphone], request)

C13_Witness ==
    /\ app = "scoring"
    /\ EngineReturned
    /\ Len(Surviving(1, request)) > request.top_k
    /\ \E i \in 1..(Len(Ranked) - 1) :
           /\ Ranked[i].scores.overall = Ranked[i + 1].scores.overall
           /\ Ranked[i].headphone + 1 < Ranked[i + 1].headphone

\* C14: for valid ScoringWeights every component score and the overall score
\* of a candidate that passed the hard filter lie in [0,100].
C14_ScoresWithinRange ==
    EngineReturned =>
        \A i \in 1..Len(Ranked) :
            LET sc == Ranked[i].scores
            IN /\ \A k \in {"sound_profile", "use_case", "budget", "feature", "rating"} :
                      sc[k] \in 0..100
               /\ sc.overall >= 0
               /\ sc.overall <= 100 * 1000

\* C15: when no catalog item passes the hard filter the scoring engine
\* returns an empty list and raises nothing, and /api/recommendations
\* answers that empty list with 404.
C15_EmptyRankingIs404 ==
    /\ (EngineReturned /\ Surviving(1, request) = <<>>) => Ranked = <<>>
    /\ (app = "scoring" /\ result.done /\ ValidWeights(request.weights)) => ~result.raised
    /\ (app = "backend" /\ apiPc # "received" /\ Surviving(1, request) = <<>>) =>
           /\ apiPc = "responded"
           /\ httpStatus = 404
           /\ apiCalls = 0

C15_Witness ==
    /\ app = "backend"
    /\ apiPc = "responded"
    /\ request.use_llm_refinement
    /\ llmAvailable
    /\ det = <<>>
    /\ httpStatus = 404

\* C16: when hard filtering leaves no candidate, generate_recommendations
\* surfaces a 'no matches' condition the caller can tell from a system
\* failure: the API layer sees the validation error (422), not a
\* database or system error (500).
C16_NoMatchesIsValidationError ==
    (app = "sonicmatch" /\ enginePc = "done" /\ candidates = <<>>) =>
        /\ raised = "ValidationException"
        /\ ApiStatus(raised) = 422

ScalarDimensions ==
    {"bass_preference", "mids_preference", "treble_preference", "soundstage_width",
     "imaging_precision", "warmth", "brightness", "energy_level", "dynamic_range"}

\* C17: after extract_from_tracks on any list of samples, and after
\* enhance_with_manual_preferences with sliders in [0,1], each of the nine
\* scalar dimensions of the preference vector lies in [0,1].
C17_PreferenceVectorInUnitRange ==
    (app = "profile" /\ result.done /\ ~result.raised) =>
        \A d \in ScalarDimensions : result.profile[d] >= 0 /\ result.profile[d] <= Unit

\* C19: the confidence of the preference vector built from n samples is 0
\* for n = 0, min(1, n/20) for n >= 1 (so 1.0 for every n >= 20), and is
\* non-decreasing in n.
C19_ConfidenceOfSampleCount ==
    (app = "profile" /\ result.done /\ ~result.raised /\ ~result.enhanced) =>
        LET n == request.n
            confidence == result.profile.confidence
        IN /\ n = 0 => confidence = 0
           /\ n >= 1 => 20 * confidence = Min(20 * Unit, n * Unit)
           /\ n >= 20 => confidence = Unit
           /\ \A m \in 0..n :
                  ExtractFromTracks(TracksOf([request EXCEPT !.n = m])).confidence
                      <= confidence

C19_Witness ==
    /\ app = "profile"
    /\ result.done
    /\ ~result.raised
    /\ ~result.enhanced
    /\ request.n > 20
    /\ result.profile.confidence = Unit

\* the dimension of the preference vector a slider is blended into
SliderField ==
    [bass |-> "bass_preference", mids |-> "mids_preference",
     treble |-> "treble_preference", soundstage |-> "soundstage_width"]

\* C20: for each dimension present in the slider map the blended value is
\* blend_weight * slider + (1 - blend_weight) * derived; with blend_weight
\* 0.7, a slider of 0.9 and a derived value below 0.9 the blended value lies
\* strictly between the derived value and 0.9 and is closer to 0.9.
C20_BlendedSliders ==
    (app = "profile" /\ result.done /\ ~result.raised /\ result.enhanced) =>
        \A key \in DOMAIN SliderField \cap DOMAIN result.manual_prefs :
            LET slider == result.manual_prefs[key]
                derived == result.derived[SliderField[key]]
                blended == result.profile[SliderField[key]]
                w == result.blend_weight
            IN /\ 100 * blended = w * slider + (100 - w) * derived
               /\ (w = 70 /\ slider = (9 * Unit) \div 10 /\ derived < slider) =>
                      /\ derived < blended
                      /\ blended < slider
                      /\ slider - blended < blended - derived

C20_Witness ==
    /\ app = "profile"
    /\ result.done
    /\ ~result.raised
    /\ result.enhanced
    /\ result.blend_weight = 70
    /\ "bass" \in DOMAIN result.manual_prefs
    /\ result.manual_prefs["bass"] = (9 * Unit) \div 10
    /\ result.derived.bass_preference > 0
    /\ result.derived.bass_preference < (3 * Unit) \div 10

\* C18: for every form factor, sound signature, bass intensity, ANC flag,
\* use-case tag and non-negative price, each scalar of the derived
\* characteristic vector lies in [0,1], also after the bass multiplier and
\* the studio and gaming adjustments.
C18_CharacteristicsInUnitRange ==
    (app = "headphone" /\ result.done) =>
        \A k \in DOMAIN result.characteristics :
            result.characteristics[k] >= 0 /\ result.characteristics[k] <= Unit

C18_Witness ==
    /\ app = "headphone"
    /\ result.done
    /\ request.use_case = "GAMING"
    /\ request.sound_profile = "BASS_HEAVY"
    /\ request.bass_level = "High"
    /\ request.price > 1000
    /\ result.characteristics.bass_response = Unit

\* the sum of the values of a mapping from labels to numbers
RECURSIVE SumOfWeights(_)
SumOfWeights(w) ==
    IF DOMAIN w = {} THEN 0
    ELSE LET g == CHOOSE x \in DOMAIN w : TRUE
         IN w[g] + SumOfWeights([x \in DOMAIN w \ {g} |-> w[x]])

\* C21: for a non-empty list of samples in which at least one genre is
\* observed, the genre weights of the preference vector sum to 1 (up to the
\* rounding of one quotient per genre), also when some samples carry no
\* genre tag.
C21_GenreWeightsSumToOne ==
    (/\ app = "profile"
     /\ result.done
     /\ ~result.raised
     /\ request.n >= 1
     /\ DOMAIN result.profile.genre_weights # {}) =>
        LET w == result.profile.genre_weights
        IN /\ SumOfWeights(w) <= Unit
           /\ Unit - SumOfWeights(w) <= Cardinality(DOMAIN w)

\* C24: extract_from_tracks followed by enhance_with_manual_preferences
\* never raises, whatever the samples and the slider map hold, null fields
\* included.
C24_ProfileStageNeverRaises ==
    (app = "profile" /\ result.done) => ~result.raised

\* C23: between a failed attempt k and attempt k+1 the orchestrator waits a
\* delay that doubles each time (1 second after the first failure, 2 after
\* the second); it waits nothing after the last failed attempt and nothing
\* after a success.
C23_BackoffDoubles ==
    app = "sonicmatch" =>
        /\ \A k \in 1..Len(waits) : waits[k] = 2 ^ (k - 1)
        /\ clientPc = "Retrying" => Len(waits) = attempt + 1
        /\ clientPc \in {"Requesting", "Succeeded"} => Len(waits) = attempt
        /\ clientPc = "Failed" => Len(waits) = MaxRetries - 1

C23_Witness ==
    /\ app = "sonicmatch"
    /\ clientPc = "Succeeded"
    /\ attempt = MaxRetries - 1
    /\ waits = <<1, 2>>

\* C25: in the response of /api/recommendations the element at position i
\* has rank i (ascending ranks 1..N, each used once), also after a
\* refinement run that succeeded and changed the ranks of the top
\* recommendations.
C25_ResponseInRankOrder ==
    (app = "backend" /\ apiPc = "responded" /\ httpStatus = 200) =>
        \A i \in 1..Len(respRecs) : respRecs[i].rank = i

\* C27: every match persisted by _save_matches references a headphone of
\* the candidate set that passed the hard constraints of the same request;
\* an entry of the answer whose headphone id is not among the candidates
\* is never stored, whatever the service returned.
C27_MatchesAreCandidates ==
    app = "sonicmatch" =>
        \A k \in 1..Len(matches) :
            /\ matches[k] \in Range(candidates)
            /\ MatchesConstraints(Catalog[matches[k]], request)

C27_Witness ==
    /\ app = "sonicmatch"
    /\ sessionStatus = "COMPLETE"
    /\ Len(llmEntries) = 2
    /\ llmEntries[1] \notin Range(candidates)
    /\ llmEntries[2] \in Range(candidates)
    /\ matches = <<llmEntries[2]>>

\* C26: the session record of generate_recommendations is PROCESSING from
\* its creation to the end of the engine's work; when the call has returned
\* normally it is COMPLETE, when the call has raised it is ERROR; it is
\* never PROCESSING after the call has ended, and it never moves out of
\* COMPLETE or ERROR.
C26_SessionStatusLifecycle ==
    /\ [](app = "sonicmatch" =>
             /\ enginePc = "calling" => sessionStatus = "PROCESSING"
             /\ enginePc = "done" /\ raised = "none" => sessionStatus = "COMPLETE"
             /\ enginePc = "done" /\ raised # "none" => sessionStatus = "ERROR"
             /\ enginePc = "done" => sessionStatus # "PROCESSING")
    /\ [][(sessionStatus \in {"COMPLETE", "ERROR"}) => (sessionStatus' = sessionStatus)]_vars

\* C22: across any sequence of POST /recommend and GET
\* /recommendations/{session_id} requests, every session entry in the cache
\* has status COMPLETE and is the entry of a session that is COMPLETE; a
\* session that is PENDING, PROCESSING or ERROR is never written.
C22_OnlyCompleteSessionsCached ==
    app = "sessions" =>
        \A session_id \in DOMAIN sessionCache :
            /\ sessionCache[session_id].status = "COMPLETE"
            /\ session_id \in DOMAIN dbSessions
            /\ dbSessions[session_id].status = "COMPLETE"

C22_Witness ==
    /\ app = "sessions"
    /\ DOMAIN sessionCache = {2}
    /\ dbSessions[1].status = "PROCESSING"
    /\ Len(dbSessions) = 3
    /\ dbSessions[3].status = "ERROR"
    /\ dbSessions[3].matches > 0
    /\ result.handler = "GET"
    /\ result.body.session_id = 3

\* C28: when process_recommendation_task(session_id, preference_id) has
\* finished successfully, the session with the given session_id is
\* COMPLETE, the returned session_id is the given one, and no session the
\* task set to PROCESSING is still PROCESSING.
C28_TaskCompletesGivenSession ==
    (app = "sessions" /\ task.pc = "succeeded") =>
        /\ dbSessions[task.session_id].status = "COMPLETE"
        /\ task.returned = task.session_id
        /\ \A i \in DOMAIN dbSessions : dbSessions[i].status # "PROCESSING"

\* C29: a request to GET /headphones answered from the cache returns the
\* same response (items, total, page, limit, pages) as the same request
\* with the same filters answered from the database, the catalog being
\* unchanged.
C29_CachedListingSameAsDatabase ==
    (app = "catalog" /\ result.done /\ result.from_cache) =>
        result.body = ListFromDatabase(request)

\* C30: in CachedLLMService, after any sequence of generate_explanation
\* calls the explanation cache never holds more than cache_size entries,
\* and a call whose key (headphone id, profile hash) is already cached
\* returns the cached text without an external call and without changing
\* the cache.
C30_ExplanationCacheBounded ==
    /\ [](app = "explain" =>
             Cardinality(DOMAIN explanationCache) <= request.cache_size)
    /\ [][(app = "explain" /\ result'.key \in DOMAIN explanationCache) =>
              /\ result'.text = explanationCache[result'.key]
              /\ explanationCache' = explanationCache
              /\ externalCalls' = externalCalls]_vars

C30_Witness ==
    /\ app = "explain"
    /\ request.cache_size = MaxCacheSize
    /\ Cardinality(DOMAIN explanationCache) = MaxCacheSize
    /\ result.done
    /\ result.hit
    /\ result.text = "fallback"
    /\ externalCalls > MaxCacheSize

====
